---- MODULE Spec2Model ----
(***************************************************************************)
(* Model of src-tauri/src/lib.rs: the pending-file store (PendingFiles),   *)
(* the startup argument scan, the single-instance callback, the            *)
(* RunEvent::Opened handler, get_pending_files and open_file_with_system.  *)
(*                                                                         *)
(* A path (PathBuf / OsString) is a sequence of units.  A unit is a        *)
(* one-character string, or "0xFF" / "0xFE": one byte that is not valid    *)
(* UTF-8.  A String is a sequence of one-character strings, where          *)
(* "U+FFFD" stands for the replacement character.                          *)
(***************************************************************************)
EXTENDS Integers, Sequences, FiniteSets, TLC

VARIABLES
    args,        \* std::env::args_os of this process (lib.rs:114)
    argIdx,      \* position of the `for arg in args.iter().skip(1)` loop
    pcMain,      \* main thread: "start", "setup", "setup_lock", "setup_push",
                 \*   "run", "opened", "opened_lock", "opened_push", "panicked"
    urls,        \* urls of the Opened event being handled, not yet visited
    pending,     \* PendingFiles.0 : Vec<PathBuf>
    lock,        \* owner of the PendingFiles mutex: "none", "main", "ui"
    window,      \* app.get_webview_window("main").is_some()
    events,      \* calls of app.emit("file-open", ..), in order
    stderr,      \* lines written with eprintln!
    focus,       \* number of window.set_focus() calls
    pcUi,        \* get_pending_files invocation: "idle", "called", "locked"
    drains,      \* values returned by get_pending_files, in order
    appended,    \* history: every path pushed to PendingFiles, in order, and
                 \*   the handler that pushed it ("args" or "opened")
    launches,    \* number of single-instance callbacks run so far
    openedEvents,\* number of Opened events received so far
    fs,          \* file system: path -> content (sequence of bytes) or NoFile
    spawned,     \* opener processes spawned, as [path, content at spawn]
    pcOpen,      \* open_file_with_system: "idle", "create", "write", "spawn"
    call,        \* the arguments and decoded bytes of the running call
    calls,       \* number of open_file_with_system calls so far
    lastCall,    \* history: [input, name, result] of the last finished call
    reads,       \* number of read_file_as_bytes calls so far
    lastRead     \* history: [path, result] of the last read_file_as_bytes

vars == <<args, argIdx, pcMain, urls, pending, lock, window, events,
          stderr, focus, pcUi, drains, appended, launches, openedEvents,
          fs, spawned, pcOpen, call, calls, lastCall, reads, lastRead>>

handoffVars == <<args, argIdx, pcMain, urls, pending, lock, window,
                 events, stderr, focus, pcUi, drains, appended, launches,
                 openedEvents>>

openerVars == <<fs, spawned, pcOpen, call, calls, lastCall, reads, lastRead>>

----------------------------------------------------------------------------
(* Bounds of the model *)

MaxArgs == 3        \* arguments after the executable name (startup scan)
MaxCoordArgs == 1   \* arguments after the executable name (coordinator)
MaxLaunches == 1    \* second launches forwarded by the single-instance guard
MaxOpened == 1      \* Opened events
MaxUrls == 2        \* urls carried by one Opened event
MaxFwd == 2         \* forwarded arguments after the executable name
MaxDrains == 2      \* get_pending_files calls
MaxCalls == 2       \* open_file_with_system calls
MaxReads == 1       \* read_file_as_bytes calls

----------------------------------------------------------------------------
(* Paths and strings *)

InvalidBytes == {"0xFF", "0xFE"}

Replacement == "U+FFFD"

\* OsStr::to_str: Some only when every unit is valid Unicode
IsUnicode(p) == \A i \in DOMAIN p : p[i] \notin InvalidBytes

\* Path::to_string_lossy().to_string(): each invalid byte becomes U+FFFD
ToStringLossy(p) ==
    [i \in DOMAIN p |-> IF p[i] \in InvalidBytes THEN Replacement ELSE p[i]]

LossyAll(ps) == [i \in DOMAIN ps |-> ToStringLossy(ps[i])]

\* char::to_lowercase on the characters the model uses
LowerChar(c) ==
    CASE c = "M" -> "m"
      [] c = "S" -> "s"
      [] c = "G" -> "g"
      [] c = "E" -> "e"
      [] c = "L" -> "l"
      [] c = "T" -> "t"
      [] c = "X" -> "x"
      [] OTHER -> c

\* str::to_lowercase
ToLowercase(s) == [i \in DOMAIN s |-> LowerChar(s[i])]

\* index of the last unit equal to c in p, 0 when there is none
LastIndexOf(p, c) ==
    LET hits == {i \in DOMAIN p : p[i] = c}
    IN  IF hits = {} THEN 0 ELSE CHOOSE i \in hits : \A j \in hits : j <= i

\* Components::next_back skips trailing separators and trailing "." components
RECURSIVE StripTrailing(_)
StripTrailing(p) ==
    LET n == Len(p)
    IN  IF n = 0 THEN p
        ELSE IF p[n] = "/" THEN StripTrailing(SubSeq(p, 1, n - 1))
        ELSE IF p[n] = "." /\ (n = 1 \/ p[n - 1] = "/")
             THEN StripTrailing(SubSeq(p, 1, n - 1))
        ELSE p

None == <<"None">>

Some(x) == <<"Some", x>>

\* Path::file_name: the last normal component, None for "", "/" or "..".
FileName(p) ==
    LET q == StripTrailing(p)
        name == SubSeq(q, LastIndexOf(q, "/") + 1, Len(q))
    IN  IF q = <<>> \/ name = <<".", ".">> THEN None ELSE Some(name)

\* Path::extension: the part of file_name after its last ".", None when the
\* name has no "." or only a leading one.
Extension(p) ==
    LET f == FileName(p)
    IN  IF f = None THEN None
        ELSE LET name == f[2]
                 dot == LastIndexOf(name, ".")
             IN  IF dot <= 1 THEN None
                 ELSE Some(SubSeq(name, dot + 1, Len(name)))

\* path.extension().and_then(|e| e.to_str()).map(|e| e.to_lowercase())
LowerExt(p) ==
    LET e == Extension(p)
    IN  IF e = None THEN None
        ELSE IF ~IsUnicode(e[2]) THEN None
        ELSE Some(ToLowercase(e[2]))

Msg == <<"m", "s", "g">>

Eml == <<"e", "m", "l">>

\* matches!(ext.as_deref(), Some("msg") | Some("eml"))
IsRecognized(p) == LowerExt(p) \in {Some(Msg), Some(Eml)}

----------------------------------------------------------------------------
(* Inputs: the paths, argument lists and urls the environment supplies *)

XEml == <<"/", "t", "m", "p", "/", "x", ".", "e", "m", "l">>

YTxt == <<"/", "t", "m", "p", "/", "y", ".", "t", "x", "t">>

ZMsg == <<"/", "t", "m", "p", "/", "z", ".", "m", "s", "g">>

AMsg == <<"/", "t", "m", "p", "/", "a", ".", "m", "s", "g">>

MixedMsg == <<"a", ".", "M", "s", "g">>

NoExt == <<"a">>

BadStemMsg == <<"0xFF", ".", "m", "s", "g">>

BadExt == <<"a", ".", "m", "s", "g", "0xFF">>

App == <<"a", "p", "p">>

\* what the OS can pass as one command-line argument (an OsString)
ArgPool == {XEml, YTxt, ZMsg, BadStemMsg}

\* what the single-instance plugin forwards as one argument (a String)
ForwardPool == {AMsg, NoExt}

RECURSIVE SeqsUpTo(_, _)
SeqsUpTo(S, n) ==
    IF n = 0 THEN {<<>>}
    ELSE LET shorter == SeqsUpTo(S, n - 1)
         IN  shorter \cup {Append(s, x) : s \in shorter, x \in S}

\* argument vectors: the executable name, then up to MaxArgs arguments
ArgVectors == {<<App>> \o s : s \in SeqsUpTo(ArgPool, MaxArgs)}

\* the argument vectors of the coordinator specification
CoordArgVectors == {<<App>> \o s : s \in SeqsUpTo(ArgPool, MaxCoordArgs)}

\* forwarded argument vectors; the plugin may forward an empty vector
ForwardVectors ==
    {<<>>} \cup {<<App>> \o s : s \in SeqsUpTo(ForwardPool, MaxFwd)}

\* a url::Url: its scheme and its percent-encoded path
Url(scheme, path) == [scheme |-> scheme, path |-> path]

UrlPool ==
    { Url("file", MixedMsg),
      Url("file", <<"%FF", ".", "m", "s", "g">>),
      Url("file", BadExt),
      Url("https", AMsg) }

UrlLists == SeqsUpTo(UrlPool, MaxUrls) \ {<<>>}

\* percent_decode of one unit of a url path
PercentDecode(u) ==
    CASE u = "%FF" -> "0xFF"
      [] u = "%FE" -> "0xFE"
      [] OTHER -> u

Err == <<"Err">>

Ok(x) == <<"Ok", x>>

\* Url::to_file_path: Err unless the scheme is file, else the decoded path
ToFilePath(url) ==
    IF url.scheme # "file" THEN Err
    ELSE Ok([i \in DOMAIN url.path |-> PercentDecode(url.path[i])])

----------------------------------------------------------------------------
(* The launch coordinator and the pending-file store *)

HandoffInit ==
    /\ args \in ArgVectors
    /\ argIdx = 0
    /\ pcMain = "start"
    /\ urls = <<>>
    /\ pending = <<>>
    /\ lock = "none"
    /\ window = FALSE
    /\ events = <<>>
    /\ stderr = 0
    /\ focus = 0
    /\ pcUi = "idle"
    /\ drains = <<>>
    /\ appended = <<>>
    /\ launches = 0
    /\ openedEvents = 0

\* one call of app.emit("file-open", payload): what was emitted, whether the
\* emit returned Ok, and whether the main window existed
Emitted(path, ok) ==
    [path |-> path, payload |-> ToStringLossy(path), ok |-> ok, window |-> window]

\* Mutant of EventsAfterOpen: the extension is not validated
EventsAfterOpenUnchecked(path, ok) == Append(events, Emitted(path, ok))

\* handle_file_open: the events after the call, when emit returns ok
EventsAfterOpen(path, ok) ==
    IF IsRecognized(path) THEN Append(events, Emitted(path, ok)) ELSE events

\* Mutant of StderrAfterOpen: a failed emit is not logged
StderrAfterOpenSilent(path, ok) ==
    IF IsRecognized(path) THEN stderr ELSE stderr + 1

\* handle_file_open: the stderr lines after the call, when emit returns ok
StderrAfterOpen(path, ok) ==
    IF IsRecognized(path) /\ ok THEN stderr ELSE stderr + 1

\* handle_file_open(app, path), with the result of app.emit chosen by the
\* framework
HandleFileOpen(path) ==
    \E ok \in BOOLEAN :
        /\ events' = EventsAfterOpen(path, ok)
        /\ stderr' = StderrAfterOpen(path, ok)

\* the framework creates the main window
CreateWindow ==
    /\ ~window
    /\ pcMain # "panicked"
    /\ window' = TRUE
    /\ UNCHANGED openerVars
    /\ UNCHANGED <<args, argIdx, pcMain, urls, pending, lock, events,
                   stderr, focus, pcUi, drains, appended, launches,
                   openedEvents>>

\* setup: std::env::args().collect() panics on an argument that is not
\* valid Unicode
CollectArgs ==
    /\ pcMain = "start"
    /\ IF \A i \in DOMAIN args : IsUnicode(args[i])
       THEN pcMain' = "setup" /\ argIdx' = 2
       ELSE pcMain' = "panicked" /\ argIdx' = argIdx
    /\ UNCHANGED openerVars
    /\ UNCHANGED <<args, urls, pending, lock, window, events, stderr,
                   focus, pcUi, drains, appended, launches, openedEvents>>

\* setup loop: an argument whose extension is not recognized is passed over
SetupSkip ==
    /\ pcMain = "setup"
    /\ argIdx <= Len(args)
    /\ ~IsRecognized(args[argIdx])
    /\ argIdx' = argIdx + 1
    /\ UNCHANGED openerVars
    /\ UNCHANGED <<args, pcMain, urls, pending, lock, window, events,
                   stderr, focus, pcUi, drains, appended, launches,
                   openedEvents>>

\* setup loop: the extension of the argument is recognized
SetupMatch ==
    /\ pcMain = "setup"
    /\ argIdx <= Len(args)
    /\ IsRecognized(args[argIdx])
    /\ pcMain' = "setup_lock"
    /\ UNCHANGED openerVars
    /\ UNCHANGED <<args, argIdx, urls, pending, lock, window, events, stderr,
                   focus, pcUi, drains, appended, launches, openedEvents>>

\* setup loop: app.state::<PendingFiles>().0.lock().unwrap() waits until the
\* mutex is free
SetupLock ==
    /\ pcMain = "setup_lock"
    /\ lock = "none"
    /\ lock' = "main"
    /\ pcMain' = "setup_push"
    /\ UNCHANGED openerVars
    /\ UNCHANGED <<args, argIdx, urls, pending, window, events, stderr,
                   focus, pcUi, drains, appended, launches, openedEvents>>

\* Mutant of GuardDropped: the guard outlives the push statement
GuardKept == "main"

\* the owner of the mutex after `...lock().unwrap().push(path);`: the
\* MutexGuard is a temporary, dropped at the end of the statement
GuardDropped == "none"

\* Mutant of Push: the path is pushed twice
PushTwice(path) == pending \o <<path, path>>

\* Mutant of Push: the path is inserted at the front
PushFront(path) == <<path>> \o pending

\* Vec::push under the guard
Push(path) == Append(pending, path)

\* setup loop: .push(path), the guard is dropped at the end of the statement
SetupPush ==
    /\ pcMain = "setup_push"
    /\ pending' = Push(args[argIdx])
    /\ appended' = Append(appended, [path |-> args[argIdx], from |-> "args"])
    /\ lock' = GuardDropped
    /\ argIdx' = argIdx + 1
    /\ pcMain' = "setup"
    /\ UNCHANGED openerVars
    /\ UNCHANGED <<args, urls, window, events, stderr, focus, pcUi,
                   drains, launches, openedEvents>>

\* setup returns Ok(()); the event loop runs
SetupDone ==
    /\ pcMain = "setup"
    /\ argIdx > Len(args)
    /\ pcMain' = "run"
    /\ UNCHANGED openerVars
    /\ UNCHANGED <<args, argIdx, urls, pending, lock, window, events,
                   stderr, focus, pcUi, drains, appended, launches,
                   openedEvents>>

\* where the main thread goes on after an Opened event: the event can be
\* delivered before setup has run
AfterOpened == IF argIdx = 0 THEN "start" ELSE "run"

\* the event loop delivers RunEvent::Opened { urls }
OpenedEvent ==
    /\ pcMain \in {"start", "run"}
    /\ openedEvents < MaxOpened
    /\ \E us \in UrlLists : urls' = us
    /\ openedEvents' = openedEvents + 1
    /\ pcMain' = "opened"
    /\ UNCHANGED openerVars
    /\ UNCHANGED <<args, argIdx, pending, lock, window, events, stderr, focus,
                   pcUi, drains, appended, launches>>

\* Mutant of CurrentPath: the url's path is taken as it is written
CurrentPathRaw == Ok(Head(urls).path)

\* the url the Opened loop is at, converted with to_file_path
CurrentPath == ToFilePath(Head(urls))

\* Opened loop: to_file_path failed, the url is passed over
OpenedNotFile ==
    /\ pcMain = "opened"
    /\ urls # <<>>
    /\ CurrentPath = Err
    /\ urls' = Tail(urls)
    /\ UNCHANGED openerVars
    /\ UNCHANGED <<args, argIdx, pcMain, pending, lock, window, events,
                   stderr, focus, pcUi, drains, appended, launches,
                   openedEvents>>

\* Opened loop: the main window exists, handle_file_open(app, path)
OpenedEmit ==
    /\ pcMain = "opened"
    /\ urls # <<>>
    /\ CurrentPath # Err
    /\ window
    /\ HandleFileOpen(CurrentPath[2])
    /\ urls' = Tail(urls)
    /\ UNCHANGED openerVars
    /\ UNCHANGED <<args, argIdx, pcMain, pending, lock, window, focus,
                   pcUi, drains, appended, launches, openedEvents>>

\* Opened loop: no main window and an extension that is not recognized
OpenedSkip ==
    /\ pcMain = "opened"
    /\ urls # <<>>
    /\ CurrentPath # Err
    /\ ~window
    /\ ~IsRecognized(CurrentPath[2])
    /\ urls' = Tail(urls)
    /\ UNCHANGED openerVars
    /\ UNCHANGED <<args, argIdx, pcMain, pending, lock, window, events,
                   stderr, focus, pcUi, drains, appended, launches,
                   openedEvents>>

\* Opened loop: no main window and a recognized extension
OpenedMatch ==
    /\ pcMain = "opened"
    /\ urls # <<>>
    /\ CurrentPath # Err
    /\ ~window
    /\ IsRecognized(CurrentPath[2])
    /\ pcMain' = "opened_lock"
    /\ UNCHANGED openerVars
    /\ UNCHANGED <<args, argIdx, urls, pending, lock, window, events, stderr,
                   focus, pcUi, drains, appended, launches, openedEvents>>

\* Opened loop: lock().unwrap() waits until the mutex is free
OpenedLock ==
    /\ pcMain = "opened_lock"
    /\ lock = "none"
    /\ lock' = "main"
    /\ pcMain' = "opened_push"
    /\ UNCHANGED openerVars
    /\ UNCHANGED <<args, argIdx, urls, pending, window, events, stderr,
                   focus, pcUi, drains, appended, launches, openedEvents>>

\* Opened loop: .push(path), the guard is dropped
OpenedPush ==
    /\ pcMain = "opened_push"
    /\ pending' = Push(CurrentPath[2])
    /\ appended' = Append(appended, [path |-> CurrentPath[2], from |-> "opened"])
    /\ lock' = GuardDropped
    /\ urls' = Tail(urls)
    /\ pcMain' = "opened"
    /\ UNCHANGED openerVars
    /\ UNCHANGED <<args, argIdx, window, events, stderr, focus, pcUi,
                   drains, launches, openedEvents>>

\* Opened loop: every url handled, back to the event loop
OpenedDone ==
    /\ pcMain = "opened"
    /\ urls = <<>>
    /\ pcMain' = AfterOpened
    /\ UNCHANGED openerVars
    /\ UNCHANGED <<args, argIdx, urls, pending, lock, window, events, stderr, focus,
                   pcUi, drains, appended, launches, openedEvents>>

\* Mutant of Forwarded: args[0] is taken instead of args[1]
ForwardedExe(fwd) == IF Len(fwd) > 0 THEN <<fwd[1]>> ELSE <<>>

\* the paths the single-instance callback passes to handle_file_open
Forwarded(fwd) == IF Len(fwd) > 1 THEN <<fwd[2]>> ELSE <<>>

\* the single-instance callback |app, args, _cwd|, run in this process when a
\* second process is launched with the arguments fwd
SingleInstance(fwd) ==
    /\ launches < MaxLaunches
    /\ pcMain # "panicked"
    /\ launches' = launches + 1
    /\ IF Forwarded(fwd) # <<>>
       THEN HandleFileOpen(Forwarded(fwd)[1])
       ELSE UNCHANGED <<events, stderr>>
    /\ focus' = IF window THEN focus + 1 ELSE focus
    /\ UNCHANGED openerVars
    /\ UNCHANGED <<args, argIdx, pcMain, urls, pending, lock, window, pcUi,
                   drains, appended, openedEvents>>

SecondLaunch == \E fwd \in ForwardVectors : SingleInstance(fwd)

\* the UI layer invokes get_pending_files
DrainCall ==
    /\ pcUi = "idle"
    /\ pcMain # "panicked"
    /\ Len(drains) < MaxDrains
    /\ pcUi' = "called"
    /\ UNCHANGED openerVars
    /\ UNCHANGED <<args, argIdx, pcMain, urls, pending, lock, window, events,
                   stderr, focus, drains, appended, launches, openedEvents>>

\* get_pending_files: state.0.lock().unwrap() waits until the mutex is free
DrainLock ==
    /\ pcUi = "called"
    /\ pcMain # "panicked"
    /\ lock = "none"
    /\ lock' = "ui"
    /\ pcUi' = "locked"
    /\ UNCHANGED openerVars
    /\ UNCHANGED <<args, argIdx, pcMain, urls, pending, window, events,
                   stderr, focus, drains, appended, launches, openedEvents>>

\* Mutant of AfterDrain: the vector is read but not emptied
AfterDrainKeeps(v) == v

\* what pending.drain(..) leaves in the vector
AfterDrain(v) == <<>>

\* get_pending_files: drain(..).map(to_string_lossy).collect(), return
DrainTake ==
    /\ pcUi = "locked"
    /\ drains' = Append(drains, LossyAll(pending))
    /\ pending' = AfterDrain(pending)
    /\ lock' = "none"
    /\ pcUi' = "idle"
    /\ UNCHANGED openerVars
    /\ UNCHANGED <<args, argIdx, pcMain, urls, window, events, stderr,
                   focus, appended, launches, openedEvents>>

HandoffNext ==
    \/ CreateWindow
    \/ CollectArgs
    \/ SetupSkip
    \/ SetupMatch
    \/ SetupLock
    \/ SetupPush
    \/ SetupDone
    \/ OpenedEvent
    \/ OpenedNotFile
    \/ OpenedEmit
    \/ OpenedSkip
    \/ OpenedMatch
    \/ OpenedLock
    \/ OpenedPush
    \/ OpenedDone
    \/ SecondLaunch
    \/ DrainCall
    \/ DrainLock
    \/ DrainTake

----------------------------------------------------------------------------
(* open_file_with_system *)

\* the value of a symbol of the standard base64 alphabet, -1 for any other
\* character (the model uses a few symbols of the alphabet)
B64Value(c) ==
    CASE c = "A" -> 0
      [] c = "B" -> 1
      [] c = "D" -> 3
      [] c = "I" -> 8
      [] c = "J" -> 9
      [] c = "Q" -> 16
      [] c = "R" -> 17
      [] c = "U" -> 20
      [] c = "/" -> 63
      [] OTHER -> -1

Pad == "="

\* the bytes of one group of four symbols, Err when the group is malformed;
\* padding is accepted in the last group only and the bits it drops must be 0
DecodeQuad(q, last) ==
    LET v == [i \in 1..4 |-> B64Value(q[i])]
    IN  IF v[1] < 0 \/ v[2] < 0 THEN Err
        ELSE IF q[3] = Pad /\ q[4] = Pad
             THEN IF last /\ v[2] % 16 = 0
                  THEN Ok(<<v[1] * 4 + v[2] \div 16>>)
                  ELSE Err
        ELSE IF v[3] < 0 THEN Err
        ELSE IF q[4] = Pad
             THEN IF last /\ v[3] % 4 = 0
                  THEN Ok(<<v[1] * 4 + v[2] \div 16,
                            (v[2] % 16) * 16 + v[3] \div 4>>)
                  ELSE Err
        ELSE IF v[4] < 0 THEN Err
        ELSE Ok(<<v[1] * 4 + v[2] \div 16,
                  (v[2] % 16) * 16 + v[3] \div 4,
                  (v[3] % 4) * 64 + v[4]>>)

RECURSIVE DecodeQuads(_)
DecodeQuads(s) ==
    IF s = <<>> THEN Ok(<<>>)
    ELSE LET head == DecodeQuad(SubSeq(s, 1, 4), Len(s) = 4)
             rest == DecodeQuads(SubSeq(s, 5, Len(s)))
         IN  IF head = Err \/ rest = Err THEN Err
             ELSE Ok(head[2] \o rest[2])

\* Mutant of Decode: missing padding is filled in before decoding
DecodeUnpadded(s) ==
    CASE Len(s) % 4 = 0 -> DecodeQuads(s)
      [] Len(s) % 4 = 2 -> DecodeQuads(s \o <<Pad, Pad>>)
      [] Len(s) % 4 = 3 -> DecodeQuads(s \o <<Pad>>)
      [] OTHER -> Err

\* STANDARD.decode(&base64_content): canonical padding is required
Decode(s) == IF Len(s) % 4 # 0 THEN Err ELSE DecodeQuads(s)

\* base64_content values the UI layer passes
Base64Pool ==
    { <<>>,
      <<"Q", "Q", "=", "=">>,
      <<"Q", "U", "I", "=">>,
      <<"Q", "U", "J", "D">>,
      <<"Q", "U", "J", "D", "/", "/", "/", "/">>,
      <<"Q", "Q">>,
      <<"Q", "R", "=", "=">>,
      <<"Q", "!", "=", "=">>,
      <<"Q", "Q", "=", "=", "Q", "U", "J", "D">> }

TempDir == <<"/", "t", "m", "p">>

\* file_name values the UI layer passes
NamePool ==
    { <<"a", ".", "p", "d", "f">>,
      <<"/", "e", "t", "c", "/", "x">> }

\* Path::join: an absolute path replaces the base
Join(dir, name) ==
    IF name # <<>> /\ Head(name) = "/" THEN name ELSE dir \o <<"/">> \o name

\* the paths of the file system the model follows: where the calls write,
\* and <temp_dir>/name taken literally
FilePaths ==
    {Join(TempDir, n) : n \in NamePool}
        \cup {TempDir \o <<"/">> \o n : n \in NamePool}

NoFile == <<"NoFile">>

File(bytes) == <<"File", bytes>>

OldContent == <<7, 7>>

NoCall == <<>>

OpenerInit ==
    /\ fs \in [FilePaths -> {NoFile, File(OldContent)}]
    /\ spawned = <<>>
    /\ pcOpen = "idle"
    /\ call = NoCall
    /\ calls = 0
    /\ lastCall = NoCall
    /\ reads = 0
    /\ lastRead = NoCall

\* a finished call: its arguments and the Result it returned
Finished(input, name, result) ==
    [input |-> input, name |-> name, result |-> result]

\* the UI layer invokes open_file_with_system(base64_content, file_name);
\* a decode error returns at once
OpenCall ==
    /\ UNCHANGED handoffVars
    /\ pcOpen = "idle"
    /\ calls < MaxCalls
    /\ calls' = calls + 1
    /\ \E input \in Base64Pool, name \in NamePool :
          IF Decode(input) = Err
          THEN /\ lastCall' = Finished(input, name, "decode error")
               /\ UNCHANGED <<pcOpen, call>>
          ELSE /\ call' = [input |-> input, name |-> name,
                           bytes |-> Decode(input)[2],
                           path |-> Join(TempDir, name)]
               /\ pcOpen' = "create"
               /\ lastCall' = NoCall
    /\ UNCHANGED <<fs, spawned, reads, lastRead>>

\* Mutant of AfterCreate: the opener is spawned before the bytes are written
AfterCreateSkipsWrite == "spawn"

\* where the call goes on after File::create succeeded
AfterCreate == "write"

\* std::fs::File::create(&temp_path): creates or truncates the file, or
\* fails when the OS refuses
OpenCreate ==
    /\ UNCHANGED handoffVars
    /\ pcOpen = "create"
    /\ \E ok \in BOOLEAN :
          IF ok
          THEN /\ fs' = [fs EXCEPT ![call.path] = File(<<>>)]
               /\ pcOpen' = AfterCreate
               /\ UNCHANGED <<call, lastCall>>
          ELSE /\ lastCall' = Finished(call.input, call.name, "create error")
               /\ pcOpen' = "idle"
               /\ call' = NoCall
               /\ UNCHANGED fs
    /\ UNCHANGED <<spawned, calls, reads, lastRead>>

\* Mutant of WriteComplete: the result of write_all is not looked at
WriteCompleteAlways(n) == TRUE

\* write_all returned Ok: every byte was written; otherwise `?` returns the
\* error
WriteComplete(n) == n = Len(call.bytes)

\* file.write_all(&bytes): on an error a prefix of the bytes has been written
OpenWrite ==
    /\ UNCHANGED handoffVars
    /\ pcOpen = "write"
    /\ \E n \in 0..Len(call.bytes) :
          /\ fs' = [fs EXCEPT ![call.path] = File(SubSeq(call.bytes, 1, n))]
          /\ IF WriteComplete(n)
             THEN /\ pcOpen' = "spawn"
                  /\ UNCHANGED <<call, lastCall>>
             ELSE /\ lastCall' = Finished(call.input, call.name, "write error")
                  /\ pcOpen' = "idle"
                  /\ call' = NoCall
    /\ UNCHANGED <<spawned, calls, reads, lastRead>>

\* what Command::spawn starts: the opener, on the file as it is now
Spawn(path) == Append(spawned, [path |-> path, content |-> fs[path]])

\* Command::new(..).arg(&temp_path).spawn(), then Ok(()) or the spawn error
OpenSpawn ==
    /\ UNCHANGED handoffVars
    /\ pcOpen = "spawn"
    /\ \E ok \in BOOLEAN :
          IF ok
          THEN /\ spawned' = Spawn(call.path)
               /\ lastCall' = Finished(call.input, call.name, "ok")
          ELSE /\ spawned' = spawned
               /\ lastCall' = Finished(call.input, call.name, "spawn error")
    /\ pcOpen' = "idle"
    /\ call' = NoCall
    /\ UNCHANGED <<fs, calls, reads, lastRead>>

----------------------------------------------------------------------------
(* read_file_as_bytes *)

\* the Err of read_file_as_bytes: the message names the path
ReadErr(path) == <<"Err", path>>

\* Mutant of FsRead: a file that cannot be read is returned as no bytes
FsReadOrEmpty(path, ok) ==
    IF ok /\ fs[path] # NoFile THEN Ok(fs[path][2]) ELSE Ok(<<>>)

\* std::fs::read(&path).map_err(..): every byte of the file, or the error
\* when the file does not exist or the OS refuses to open or read it
FsRead(path, ok) ==
    IF ok /\ fs[path] # NoFile THEN Ok(fs[path][2]) ELSE ReadErr(path)

\* a finished read_file_as_bytes call: its argument and the Result it returned
FinishedRead(path, result) == [path |-> path, result |-> result]

\* the UI layer invokes read_file_as_bytes(path); the function has no access
\* to the application state and writes to no file
ReadFile ==
    /\ UNCHANGED handoffVars
    /\ reads < MaxReads
    /\ reads' = reads + 1
    /\ \E path \in FilePaths, ok \in BOOLEAN :
          lastRead' = FinishedRead(path, FsRead(path, ok))
    /\ UNCHANGED <<fs, spawned, pcOpen, call, calls, lastCall>>

OpenerNext ==
    \/ OpenCall
    \/ OpenCreate
    \/ OpenWrite
    \/ OpenSpawn
    \/ ReadFile

----------------------------------------------------------------------------
(* Specifications *)

\* the coordinator before any open_file_with_system call
OpenerIdle ==
    /\ fs = [p \in FilePaths |-> NoFile]
    /\ spawned = <<>>
    /\ pcOpen = "idle"
    /\ call = NoCall
    /\ calls = 0
    /\ lastCall = NoCall
    /\ reads = 0
    /\ lastRead = NoCall

\* the process with no file passed at startup and no launch event
HandoffIdle ==
    /\ args = <<App>>
    /\ argIdx = 0
    /\ pcMain = "start"
    /\ urls = <<>>
    /\ pending = <<>>
    /\ lock = "none"
    /\ window = TRUE
    /\ events = <<>>
    /\ stderr = 0
    /\ focus = 0
    /\ pcUi = "idle"
    /\ drains = <<>>
    /\ appended = <<>>
    /\ launches = 0
    /\ openedEvents = 0

\* the process after the startup scan of ["app", "/tmp/x.eml"], before the UI
\* layer has drained the store
HandoffSettled ==
    /\ args = <<App, XEml>>
    /\ argIdx = 3
    /\ pcMain = "run"
    /\ urls = <<>>
    /\ pending = <<XEml>>
    /\ lock = "none"
    /\ window = TRUE
    /\ events = <<>>
    /\ stderr = 0
    /\ focus = 0
    /\ pcUi = "idle"
    /\ drains = <<>>
    /\ appended = <<[path |-> XEml, from |-> "args"]>>
    /\ launches = 0
    /\ openedEvents = 0

\* the whole launch coordinator: startup scan, Opened events, second
\* launches and drains, interleaved
Init ==
    /\ HandoffInit
    /\ args \in CoordArgVectors
    /\ OpenerIdle

Next == HandoffNext

Spec == Init /\ [][Next]_vars

\* a step of the main thread from its call of lock() to the end of the push
\* statement
AppendStep ==
    \/ SetupLock
    \/ SetupPush
    \/ OpenedLock
    \/ OpenedPush

\* a step of the thread that runs a get_pending_files call
UiStep ==
    \/ DrainLock
    \/ DrainTake

\* the launch coordinator under fair scheduling: a thread that has called
\* lock() or holds the lock eventually takes its next step when it can
FairSpec == Init /\ [][Next]_vars /\ WF_vars(AppendStep) /\ WF_vars(UiStep)

\* the process while the main window does not exist: the startup scan,
\* Opened events and the drains of the UI layer
StartupInit ==
    /\ HandoffInit
    /\ OpenerIdle

StartupNext ==
    \/ CollectArgs
    \/ SetupSkip
    \/ SetupMatch
    \/ SetupLock
    \/ SetupPush
    \/ SetupDone
    \/ OpenedEvent
    \/ OpenedNotFile
    \/ OpenedSkip
    \/ OpenedMatch
    \/ OpenedLock
    \/ OpenedPush
    \/ OpenedDone
    \/ DrainCall
    \/ DrainLock
    \/ DrainTake

StartupSpec == StartupInit /\ [][StartupNext]_vars

\* the calls of open_file_with_system and read_file_as_bytes
OpenerSpecInit ==
    /\ HandoffIdle \/ HandoffSettled
    /\ OpenerInit

OpenerSpec == OpenerSpecInit /\ [][OpenerNext]_vars

----------------------------------------------------------------------------
(* Notions the properties are stated with *)

\* the extension of the path equals msg or eml after lower-casing
HasMessageExtension(p) ==
    LET e == Extension(p)
    IN  /\ e # None
        /\ IsUnicode(e[2])
        /\ ToLowercase(e[2]) \in {<<"m", "s", "g">>, <<"e", "m", "l">>}

\* the concatenation of a sequence of sequences
RECURSIVE Flatten(_)
Flatten(ss) == IF ss = <<>> THEN <<>> ELSE Head(ss) \o Flatten(Tail(ss))

\* the paths appended so far, in append order
AppendedPaths == [i \in DOMAIN appended |-> appended[i].path]

\* the paths the startup scan has appended so far, in append order
ScanAppended ==
    LET FromArgs(a) == a.from = "args"
        scan == SelectSeq(appended, FromArgs)
    IN  [i \in DOMAIN scan |-> scan[i].path]

\* the number of paths the drains have returned so far
Delivered == Len(Flatten(drains))

\* the paths appended since the last drain, in append order
SinceLastDrain == SubSeq(AppendedPaths, Delivered + 1, Len(appended))

\* this step is the return of a get_pending_files call
DrainReturns == Len(drains') = Len(drains) + 1

\* the value the returning get_pending_files call returns
Returned == drains'[Len(drains')]

\* the arguments after the executable name
Rest(argv) == SubSeq(argv, 2, Len(argv))

----------------------------------------------------------------------------
(* C1 *)

\* C1 as stated: a get_pending_files call returns exactly the paths appended
\* since the previous drain, in append order, and leaves the store empty (so
\* that a second call made immediately afterwards returns the empty list).
C1_Original ==
    [][DrainReturns => (Returned = SinceLastDrain /\ pending' = <<>>)]_vars

\* C1 amended: a get_pending_files call returns the lossy string conversion
\* (to_string_lossy) of each path appended since the previous drain, in
\* append order, which is the path itself when the path is valid Unicode,
\* and leaves the store empty, so that a second call made immediately
\* afterwards returns the empty list.
C1_AppendThenDrain ==
    [][DrainReturns =>
          /\ Returned = LossyAll(SinceLastDrain)
          /\ \A i \in DOMAIN SinceLastDrain :
                IsUnicode(SinceLastDrain[i]) => Returned[i] = SinceLastDrain[i]
          /\ pending' = <<>>
          /\ (Delivered = Len(appended) => Returned = <<>>)]_vars

\* two paths were appended and drained in order, one of them not valid
\* Unicode, and the next drain returned the empty list
C1_Witness ==
    /\ Len(drains) = 2
    /\ Len(drains[1]) = 2
    /\ drains[1] = LossyAll(AppendedPaths)
    /\ \E i \in DOMAIN appended : ~IsUnicode(appended[i].path)
    /\ drains[2] = <<>>

----------------------------------------------------------------------------
(* C2 *)

\* C2: under every interleaving of appends and drains no appended path is
\* lost or duplicated: the paths returned by the drains so far, followed by
\* the paths still in the store, are exactly the paths appended so far, each
\* once and in append order.
C2_NoLossNoReplay ==
    /\ Flatten(drains) \o LossyAll(pending) = LossyAll(AppendedPaths)
    /\ Delivered + Len(pending) = Len(appended)

\* a drain returned a path, a second drain returned a path appended after
\* the first drain, and a path appended after that is still in the store
C2_Witness ==
    /\ Len(drains) = 2
    /\ drains[1] # <<>>
    /\ drains[2] # <<>>
    /\ pending # <<>>

----------------------------------------------------------------------------
(* C3 *)

\* C3: every path in the store and every path carried by a file-open event
\* has an extension equal to msg or eml after lower-casing.
C3_OnlyMessageFiles ==
    /\ \A i \in DOMAIN pending : HasMessageExtension(pending[i])
    /\ \A i \in DOMAIN appended : HasMessageExtension(appended[i].path)
    /\ \A i \in DOMAIN events : HasMessageExtension(events[i].path)

\* a path was stored, a.Msg was emitted, and paths with another extension
\* were dropped with a diagnostic line
C3_Witness ==
    /\ pending # <<>>
    /\ \E i \in DOMAIN events : events[i].path = MixedMsg
    /\ \A i \in DOMAIN events : events[i].ok
    /\ stderr >= 2

----------------------------------------------------------------------------
(* C4 *)

\* the startup scan is over
ScanDone == pcMain = "run"

\* no path is in the store or was drained from it but those of the scan
OnlyScanStored ==
    /\ ScanAppended = AppendedPaths
    /\ Delivered = 0

\* C4: after the startup scan the paths the scan has recorded are exactly the
\* arguments after index 0 whose extension is msg or eml, in argument order;
\* they are the whole pending list when no drain has returned a path and no
\* Opened event has stored one.
C4_StartupScan ==
    ScanDone =>
        /\ ScanAppended = SelectSeq(Rest(args), HasMessageExtension)
        /\ OnlyScanStored =>
               pending = SelectSeq(Rest(args), HasMessageExtension)

\* the scan of ["app", "/tmp/x.eml", "/tmp/y.txt", "/tmp/z.msg"] is over and
\* the pending list is ["/tmp/x.eml", "/tmp/z.msg"]
C4_Witness ==
    /\ ScanDone
    /\ args = <<App, XEml, YTxt, ZMsg>>
    /\ OnlyScanStored
    /\ pending = <<XEml, ZMsg>>

----------------------------------------------------------------------------
(* C5, C9: the single-instance callback *)

\* a call of app.emit("file-open", ..) with this path was added to the events
EmitAdded(path) ==
    \E ok \in BOOLEAN :
        events' = Append(events, [path |-> path, payload |-> path, ok |-> ok,
                                  window |-> window])

\* the focus requests after a callback that ran in this state
FocusAfterCallback == IF window THEN focus + 1 ELSE focus

C9_Original ==
    [][\A fwd \in ForwardVectors :
          (launches' = launches + 1 /\ SingleInstance(fwd))
          => pending' = pending \o SelectSeq(Rest(fwd), HasMessageExtension)]_vars

----------------------------------------------------------------------------
(* C6: the Opened handler *)

\* the main thread takes a step of the Opened loop
OpenedStep ==
    /\ pcMain \in {"opened", "opened_lock", "opened_push"}
    /\ <<pcMain, urls>>' # <<pcMain, urls>>

\* the url the Opened loop is at converts to a path with a recognized
\* extension
AtRecognizedUrl ==
    /\ urls # <<>>
    /\ ToFilePath(Head(urls)) # Err
    /\ HasMessageExtension(ToFilePath(Head(urls))[2])

\* the path of the url the Opened loop is at
UrlPath == ToFilePath(Head(urls))[2]

\* C6: for each path delivered by an Opened event with a recognized
\* extension: if the main window exists when the handler looks, emit is
\* called once for a file-open event carrying the path and the store is left
\* unchanged; if it does not exist, the handler takes the lock and appends the
\* path to the store and calls no emit for it.
C6_OpenedRouting ==
    [][(OpenedStep /\ AtRecognizedUrl) =>
          /\ (pcMain = "opened" /\ window) =>
                /\ \E ok \in BOOLEAN :
                      events' = Append(events,
                          [path |-> UrlPath, payload |-> ToStringLossy(UrlPath),
                           ok |-> ok, window |-> TRUE])
                /\ pending' = pending
                /\ appended' = appended
                /\ urls' = Tail(urls)
          /\ (pcMain = "opened" /\ ~window) =>
                /\ pcMain' = "opened_lock"
                /\ events' = events
                /\ pending' = pending
                /\ urls' = urls
          /\ pcMain = "opened_lock" =>
                /\ pcMain' = "opened_push"
                /\ lock' = "main"
                /\ events' = events
                /\ pending' = pending
                /\ urls' = urls
          /\ pcMain = "opened_push" =>
                /\ pending' = Append(pending, UrlPath)
                /\ events' = events
                /\ urls' = Tail(urls)]_vars

\* one Opened event carried two recognized paths: the first was handled
\* before the main window existed and stored, the second after and emitted
C6_Witness ==
    /\ launches = 0
    /\ openedEvents = 1
    /\ urls = <<>>
    /\ Len(appended) = 1
    /\ appended[1].from = "opened"
    /\ Len(events) = 1
    /\ events[1].window
    /\ events[1].path # appended[1].path

----------------------------------------------------------------------------
(* C10: a failed emit *)

\* this step is a call of app.emit that returned an error
EmitFails ==
    /\ Len(events') = Len(events) + 1
    /\ ~events'[Len(events')].ok

\* C10: a step in which emit fails writes one line to stderr and has, apart
\* from that line and the recorded result of the emit, the effect of the same
\* step with a successful emit: the handler goes on (the Opened loop to its
\* next url, the single-instance callback to its focus request), no thread
\* panics, the store is unchanged and emit is called once, not again.
C10_EmitFailureIgnored ==
    [][EmitFails =>
          /\ stderr' = stderr + 1
          /\ SubSeq(events', 1, Len(events)) = events
          /\ <<args, argIdx, pcMain, pending, lock, window, pcUi, drains,
               appended, openedEvents>>'
               = <<args, argIdx, pcMain, pending, lock, window, pcUi, drains,
                   appended, openedEvents>>
          /\ \/ /\ pcMain = "opened"
                /\ urls # <<>>
                /\ urls' = Tail(urls)
                /\ launches' = launches
                /\ focus' = focus
             \/ /\ urls' = urls
                /\ launches' = launches + 1
                /\ focus' = FocusAfterCallback]_vars

\* an emit failed and later operations ran as usual: a later emit succeeded,
\* a later path was appended and drained
C10_Witness ==
    /\ Len(events) = 2
    /\ ~events[1].ok
    /\ events[2].ok
    /\ stderr = 1
    /\ pcMain = "run"
    /\ Len(drains) = 1
    /\ drains[1] # <<>>

----------------------------------------------------------------------------
(* C7, C8: open_file_with_system *)

\* the symbols of the base64 alphabet the model uses
Symbols == {"A", "B", "D", "I", "J", "Q", "R", "U", "/"}

\* the symbol of a 6-bit value
Symbol(v) == CHOOSE c \in Symbols : B64Value(c) = v

\* RFC 4648 encoding of one group of one, two or three bytes
EncodeGroup(b) ==
    CASE Len(b) = 1 ->
           <<Symbol(b[1] \div 4), Symbol((b[1] % 4) * 16), Pad, Pad>>
      [] Len(b) = 2 ->
           <<Symbol(b[1] \div 4), Symbol((b[1] % 4) * 16 + b[2] \div 16),
             Symbol((b[2] % 16) * 4), Pad>>
      [] OTHER ->
           <<Symbol(b[1] \div 4), Symbol((b[1] % 4) * 16 + b[2] \div 16),
             Symbol((b[2] % 16) * 4 + b[3] \div 64), Symbol(b[3] % 64)>>

\* RFC 4648 encoding of a byte sequence
RECURSIVE Encode(_)
Encode(b) ==
    IF b = <<>> THEN <<>>
    ELSE IF Len(b) <= 3 THEN EncodeGroup(b)
    ELSE EncodeGroup(SubSeq(b, 1, 3)) \o Encode(SubSeq(b, 4, Len(b)))

\* byte sequences whose encodings are among the inputs
BytePool ==
    { <<>>, <<65>>, <<65, 66>>, <<65, 66, 67>>, <<65, 66, 67, 255, 255, 255>> }

\* s is valid base64: the encoding of a byte sequence
WellFormed(s) == \E b \in BytePool : Encode(b) = s

\* the base64_content of the call that runs or has just returned
StartedInput == IF call # NoCall THEN call.input ELSE lastCall.input

\* this step is the invocation of open_file_with_system
CallStarts == calls' = calls + 1

\* C7: a call with a malformed base64 string returns a decode error at once:
\* it creates, truncates or modifies no file and spawns no opener, and no
\* call with such a string ever reaches the create, write or spawn step.
C7_MalformedNoWrite ==
    /\ [](pcOpen # "idle" => WellFormed(call.input))
    /\ [][(CallStarts /\ ~WellFormed(StartedInput')) =>
            /\ lastCall' # NoCall
            /\ lastCall'.result = "decode error"
            /\ pcOpen' = "idle"
            /\ fs' = fs
            /\ spawned' = spawned]_vars

\* a call wrote a file, and a later call with a malformed string returned a
\* decode error and left that file as it was
C7_Witness ==
    /\ calls = 2
    /\ lastCall # NoCall
    /\ lastCall.result = "decode error"
    /\ ~WellFormed(lastCall.input)
    /\ fs[Join(TempDir, lastCall.name)] = File(<<65, 66, 67>>)
    /\ Len(spawned) = 1

\* <temp_dir>/name
InTempDir(name) == TempDir \o <<"/">> \o name

\* the file the call writes: <temp_dir>/name, or name when name is absolute
Target(name) ==
    IF name # <<>> /\ Head(name) = "/" THEN name ELSE InTempDir(name)

\* the last call has returned and its base64_content was valid
ReturnedValid == lastCall # NoCall /\ WellFormed(lastCall.input)

----------------------------------------------------------------------------
(* C11: read_file_as_bytes *)

\* this step is a call of read_file_as_bytes
ReadReturns == reads' = reads + 1

\* C11: a call of read_file_as_bytes(path) returns exactly the bytes B that
\* are the content of the file at the path, or an I/O error value naming the
\* path when the file cannot be opened or read (always so when there is no
\* file); in both cases the contents of the file system, the store and every
\* other part of the state are as before the call.
C11_ReadExact ==
    [][ReadReturns =>
          /\ lastRead' # NoCall
          /\ \/ lastRead'.result = ReadErr(lastRead'.path)
             \/ /\ lastRead'.result[1] = "Ok"
                /\ fs[lastRead'.path] = File(lastRead'.result[2])
          /\ fs[lastRead'.path] = NoFile =>
                lastRead'.result = ReadErr(lastRead'.path)
          /\ fs' = fs
          /\ spawned' = spawned
          /\ pending' = pending
          /\ handoffVars' = handoffVars]_vars

\* open_file_with_system wrote the bytes 65 66 67 to <temp_dir>/a.pdf, and a
\* read of that path returned exactly these bytes, leaving the file and the
\* stored path as they were
C11_Witness ==
    /\ lastRead # NoCall
    /\ lastRead.path = TempDir \o <<"/", "a", ".", "p", "d", "f">>
    /\ lastRead.result = Ok(<<65, 66, 67>>)
    /\ fs[lastRead.path] = File(<<65, 66, 67>>)
    /\ lastCall # NoCall
    /\ lastCall.result = "ok"
    /\ pending = <<XEml>>

----------------------------------------------------------------------------
(* C12: the steps of open_file_with_system *)

\* the call in progress ends in this step with this error
EndsWith(error) ==
    /\ pcOpen' = "idle"
    /\ call' = NoCall
    /\ lastCall' # NoCall
    /\ lastCall'.result = error

\* C12: a call of open_file_with_system performs decode, create, write and
\* spawn in this order, each at most once; the first step that fails ends the
\* call with the error of that step and nothing is attempted after it or
\* again.  After a create or write failure no opener is spawned; after a
\* spawn failure the call returns the error and the file stays as written,
\* with the decoded bytes.
C12_StepsInOrder ==
    [][/\ pcOpen # "idle" => calls' = calls
       /\ (pcOpen = "idle" /\ calls' # calls) =>
             /\ calls' = calls + 1
             /\ fs' = fs
             /\ spawned' = spawned
             /\ \/ pcOpen' = "create" /\ call' # NoCall
                \/ /\ pcOpen' = "idle"
                   /\ call' = NoCall
                   /\ lastCall'.result = "decode error"
       /\ (pcOpen = "create" /\ pcOpen' # pcOpen) =>
             /\ spawned' = spawned
             /\ \/ pcOpen' = "write" /\ call' = call /\ lastCall' = lastCall
                \/ EndsWith("create error") /\ fs' = fs
       /\ (pcOpen = "write" /\ pcOpen' # pcOpen) =>
             /\ spawned' = spawned
             /\ \/ /\ pcOpen' = "spawn"
                   /\ call' = call
                   /\ lastCall' = lastCall
                   /\ fs'[call.path] = File(call.bytes)
                \/ EndsWith("write error")
       /\ (pcOpen = "spawn" /\ pcOpen' # pcOpen) =>
             /\ fs' = fs
             /\ fs[call.path] = File(call.bytes)
             /\ \/ /\ EndsWith("ok")
                   /\ Len(spawned') = Len(spawned) + 1
                   /\ SubSeq(spawned', 1, Len(spawned)) = spawned
                \/ EndsWith("spawn error") /\ spawned' = spawned
       /\ pcOpen # "spawn" => spawned' = spawned
       /\ (pcOpen = pcOpen' /\ calls' = calls) => <<fs, call>>' = <<fs, call>>
      ]_vars

\* the spawn of a call failed: the call returned the error, no opener runs,
\* and the file it wrote holds the decoded bytes in place of the old content
C12_Witness ==
    /\ calls = 1
    /\ lastCall # NoCall
    /\ lastCall.result = "spawn error"
    /\ lastCall.input = <<"Q", "U", "I", "=">>
    /\ fs[Join(TempDir, lastCall.name)] = File(<<65, 66>>)
    /\ spawned = <<>>

----------------------------------------------------------------------------
(* C13: the lock of the store *)

\* the lock is held exactly between the lock() and the end of the push
\* statement, or between the lock() and the return of get_pending_files
LockHeldOnlyToAppendOrDrain ==
    /\ lock = "main" <=> pcMain \in {"setup_push", "opened_push"}
    /\ lock = "ui" <=> pcUi = "locked"

\* the thread that holds the lock can take the step that releases it
HolderCanRelease ==
    /\ lock = "main" => ENABLED (SetupPush \/ OpenedPush)
    /\ lock = "ui" => ENABLED DrainTake

\* the main thread waits for the lock or holds it in order to append
AppendStarted ==
    pcMain \in {"setup_lock", "setup_push", "opened_lock", "opened_push"}

\* the largest number of appends of a run
MaxAppends == MaxCoordArgs + MaxOpened * MaxUrls

\* C13: the lock is held only for one append or one drain: the next step of
\* its holder is that append or drain, which releases it, and no event is
\* emitted and no focus requested by a step that takes, holds or releases
\* the lock.  The holder can always take that step, so no thread waits for
\* the lock for ever (no deadlock), and under fair scheduling every append
\* that was started is made and every get_pending_files call returns (unless
\* the process has panicked in setup).
C13_LockShortNoDeadlock ==
    /\ [](LockHeldOnlyToAppendOrDrain /\ HolderCanRelease)
    /\ [][/\ (lock = "main" /\ pcMain' # pcMain) =>
               /\ lock' = "none"
               /\ Len(pending') = Len(pending) + 1
               /\ drains' = drains
          /\ (lock = "ui" /\ pcUi' # pcUi) =>
               /\ lock' = "none"
               /\ pending' = <<>>
               /\ Len(drains') = Len(drains) + 1
          /\ (lock # "none" /\ lock' # "none") => lock' = lock
          /\ (events' # events \/ focus' # focus \/ window' # window) =>
               /\ lock' = lock
               /\ pending' = pending
               /\ lock # "main" \/ launches' # launches \/ window' # window
         ]_vars
    /\ \A n \in 0..MaxAppends :
          (AppendStarted /\ Len(appended) = n) ~> (Len(appended) > n)
    /\ \A n \in 0..(MaxDrains - 1) :
          (pcUi # "idle" /\ Len(drains) = n)
              ~> (Len(drains) > n \/ pcMain = "panicked")

\* the Opened handler waits for the lock while a get_pending_files call
\* holds it to drain a stored path, after an earlier drain and append
C13_Witness ==
    /\ pcMain = "opened_lock"
    /\ lock = "ui"
    /\ pcUi = "locked"
    /\ pending # <<>>
    /\ Len(drains) = 1

----------------------------------------------------------------------------
(* C14: one delivery channel for each arrival *)

\* this step ends the handling of the startup argument at argIdx, which has
\* a recognized extension
ArgHandled ==
    /\ argIdx >= 2
    /\ argIdx <= Len(args)
    /\ argIdx' = argIdx + 1
    /\ HasMessageExtension(args[argIdx])

\* this step ends the handling of the url the Opened loop is at, which
\* converts to a path with a recognized extension
UrlHandled ==
    /\ pcMain \in {"opened", "opened_push"}
    /\ AtRecognizedUrl
    /\ urls' = Tail(urls)

\* this step is a run of the single-instance callback
CallbackRuns == launches' = launches + 1

\* the store gains this path, once, and no event is emitted
AppendedOnce(path) ==
    /\ pending' = Append(pending, path)
    /\ Len(appended') = Len(appended) + 1
    /\ appended'[Len(appended')].path = path
    /\ events' = events

\* one file-open event is emitted for this path and the store is untouched
EmittedOnce(path) ==
    /\ Len(events') = Len(events) + 1
    /\ SubSeq(events', 1, Len(events)) = events
    /\ events'[Len(events')].path = path
    /\ pending' = pending
    /\ appended' = appended

\* C14: the handling of each arrival of a recognized path (a startup
\* argument, the forwarded argument the single-instance callback handles, a
\* url of an Opened event) either appends the path once to the store or
\* emits one file-open event for it, never both and never twice, and no
\* other step appends a path or emits an event.
C14_OneChannel ==
    [][/\ ArgHandled => AppendedOnce(args[argIdx])
       /\ UrlHandled => (AppendedOnce(UrlPath) \/ EmittedOnce(UrlPath))
       /\ CallbackRuns =>
             \A fwd \in ForwardVectors :
                 SingleInstance(fwd) =>
                     IF Len(fwd) > 1 /\ HasMessageExtension(fwd[2])
                     THEN EmittedOnce(fwd[2])
                     ELSE events' = events /\ appended' = appended
       /\ ~(ArgHandled \/ UrlHandled \/ CallbackRuns) =>
             /\ events' = events
             /\ appended' = appended
             /\ pending' = pending \/ pending' = <<>>
      ]_vars

\* a startup argument and the first url of an Opened event were stored, the
\* second url and a forwarded argument were emitted: four arrivals, four
\* deliveries, no path delivered through both channels
C14_Witness ==
    /\ pcMain = "run"
    /\ launches = 1
    /\ openedEvents = 1
    /\ Len(appended) = 2
    /\ appended[1].from = "args"
    /\ appended[2].from = "opened"
    /\ Len(events) = 2
    /\ \A i \in DOMAIN events, j \in DOMAIN appended :
          events[i].path # appended[j].path

----------------------------------------------------------------------------
(* C15: arrivals before the main window exists *)

\* C15 as stated: a file-open event is emitted only in states where the main
\* window exists, and a recognized path that arrives through any channel,
\* the single-instance callback included, while the main window does not
\* exist is appended to the store (and so returned by the next drain) and
\* not emitted.
C15_Original ==
    /\ [](\A i \in DOMAIN events : events[i].window)
    /\ [][/\ Len(events') > Len(events) => window
          /\ (UrlHandled /\ ~window) => AppendedOnce(UrlPath)
          /\ (CallbackRuns /\ ~window) =>
                \A fwd \in ForwardVectors :
                    (/\ SingleInstance(fwd)
                     /\ Len(fwd) > 1
                     /\ HasMessageExtension(fwd[2]))
                    => AppendedOnce(fwd[2])
         ]_vars

====
